---- MODULE Spec2Model ----
(***************************************************************************)
(* Smartcar-HA: the sensor platform (custom_components/smartcar/sensor.py) *)
(* and the config-entry helpers (custom_components/smartcar/util.py).      *)
(*                                                                         *)
(* Four specifications share the variables below:                          *)
(*   Spec       one SmartcarSensor after construction: coordinator         *)
(*              updates, option changes and reads of native_value          *)
(*   SpecSetup  async_setup_entry over the coordinators of one entry       *)
(*   SpecPure   the descriptors' function fields applied to inputs         *)
(*   SpecUid    unique_id_from_entry_data on two entry-data records        *)
(* Python numbers are exact rationals n/d here; a Python exception is the  *)
(* value Raised.                                                           *)
(***************************************************************************)
EXTENDS Integers, Sequences, FiniteSets, TLC

VARIABLES
    \* ---- Spec: one SmartcarSensor ----
    description,      \* self.entity_description (its key)
    use_imperial,     \* self._use_imperial
    unit,             \* self._attr_native_unit_of_measurement
    confData,         \* coordinator.config_entry.data (the use_imperial item)
    constructedWith,  \* config_entry.data as it was when __init__ ran
    data,             \* coordinator's cached value at value_key_path
    ret,              \* outcome of the last native_value read
    \* ---- SpecSetup: async_setup_entry ----
    coordinators,     \* entry.runtime_data.coordinators (VINs, dict order)
    scopes,           \* pairs <<vin, key>> for which is_scope_enabled is true
    setupConf,        \* config_entry.data seen by the constructors
    setupCalls,       \* number of async_setup_entry invocations
    addCalls,         \* arguments of the async_add_entities calls, in order
    \* ---- SpecPure: function fields of the descriptors ----
    fnKey,            \* descriptor whose functions are applied
    orig,             \* the input
    cur,              \* the current value
    hist,             \* names of the functions applied so far
    \* ---- SpecUid: unique_id_from_entry_data ----
    entry1,           \* keys of data["vehicles"] of a first record, dict order
    entry2,           \* keys of data["vehicles"] of a second record
    uid1,             \* unique_id_from_entry_data of the first record
    uid2,             \* unique_id_from_entry_data of the second record
    uidDone           \* TRUE once both identifiers have been computed

sensorVars == <<description, use_imperial, unit, confData, constructedWith, data, ret>>
setupVars  == <<coordinators, scopes, setupConf, setupCalls, addCalls>>
pureVars   == <<fnKey, orig, cur, hist>>
uidVars    == <<entry1, entry2, uid1, uid2, uidDone>>
vars == <<sensorVars, setupVars, pureVars, uidVars>>

----------------------------------------------------------------------------
(* Bounds *)

MaxValue  == 4     \* cached numeric values are 0..MaxValue (in the native unit)
FracDen   == 200   \* cached fractions are n/FracDen, n in 0..FracDen
MaxScopes == 2     \* at most this many enabled (vehicle, sensor) scopes
MaxSetups == 1     \* async_setup_entry runs at most this often
MaxKeys   == 2     \* vehicles per entry-data record
MaxKeyLen == 1     \* characters per vehicle key

----------------------------------------------------------------------------
(* Python values *)

None   == [tag |-> "None", n |-> 0, d |-> 1, s |-> ""]
Raised == [tag |-> "HomeAssistantError", n |-> 0, d |-> 1, s |-> ""]
TypeError == [tag |-> "TypeError", n |-> 0, d |-> 1, s |-> ""]
Errors == {Raised, TypeError}
Str(s) == [tag |-> "str", n |-> 0, d |-> 1, s |-> s]

Abs(x) == IF x < 0 THEN -x ELSE x

RECURSIVE Gcd(_, _)
Gcd(a, b) == IF b = 0 THEN a ELSE Gcd(b, a % b)

\* the number n/d, in lowest terms (d > 0)
Num(n, d) ==
    LET g == Gcd(Abs(n), d)
    IN  [tag |-> "num", n |-> n \div g, d |-> d \div g, s |-> ""]

\* x * y on numbers, cancelling crosswise before multiplying
Mul(x, y) ==
    LET g1 == Gcd(Abs(x.n), y.d)
        g2 == Gcd(Abs(y.n), x.d)
    IN  Num((x.n \div g1) * (y.n \div g2), (x.d \div g2) * (y.d \div g1))

\* x / y on numbers, y > 0
Div(x, y) == Mul(x, Num(y.d, y.n))

\* Python truthiness of a value: None, 0 and "" are falsy
Truthy(v) ==
    CASE v.tag = "None" -> FALSE
      [] v.tag = "num"  -> v.n # 0
      [] v.tag = "str"  -> v.s # ""
      [] OTHER          -> TRUE

\* Python round(x) for a number x >= 0: nearest integer, ties to even
PyRound(x) ==
    LET q == x.n \div x.d
        r == x.n % x.d
    IN  IF 2 * r < x.d THEN Num(q, 1)
        ELSE IF 2 * r > x.d THEN Num(q + 1, 1)
        ELSE IF q % 2 = 0 THEN Num(q, 1) ELSE Num(q + 1, 1)

----------------------------------------------------------------------------
(* homeassistant.util.unit_conversion, as imported by sensor.py *)

\* a conversion lambda of a descriptor: converter class, from_unit, to_unit
NoConversion == [converter |-> "None", from |-> "", to |-> ""]
Conversion(c, f, t) == [converter |-> c, from |-> f, to |-> t]

\* DistanceConverter._UNIT_CONVERSION: units per metre
DistanceUnits == {"km", "m", "mi"}
DistanceRatio(u) ==
    CASE u = "km" -> Num(1, 1000)
      [] u = "m"  -> Num(1, 1)
      [] u = "mi" -> Num(125, 201168)       \* 1 / 1609.344

\* PressureConverter._UNIT_CONVERSION: units per pascal
PressureUnits == {"Pa", "kPa", "psi"}
PressureRatio(u) ==
    CASE u = "Pa"  -> Num(1, 1)
      [] u = "kPa" -> Num(1, 1000)
      [] u = "psi" -> Num(1000, 6894757)    \* 1 / 6894.757

ValidUnits(c) == IF c = "DistanceConverter" THEN DistanceUnits ELSE PressureUnits
Ratio(c, u)   == IF c = "DistanceConverter" THEN DistanceRatio(u) ELSE PressureRatio(u)

\* BaseUnitConverter.convert(value, from_unit, to_unit): the same unit is
\* returned as is, a unit the converter does not list raises
\* HomeAssistantError, otherwise (value / from_ratio) * to_ratio, which is a
\* TypeError on a value that is not a number
Convert(c, v, f, t) ==
    IF f = t THEN v
    ELSE IF f \notin ValidUnits(c) \/ t \notin ValidUnits(c) THEN Raised
    ELSE IF v.tag # "num" THEN TypeError
    ELSE Mul(Div(v, Ratio(c, f)), Ratio(c, t))

\* calling a conversion field of a descriptor: the lambda it holds, and a
\* TypeError when the field is None
ApplyConversion(conv, v) ==
    IF conv = NoConversion THEN TypeError
    ELSE Convert(conv.converter, v, conv.from, conv.to)

----------------------------------------------------------------------------
(* SENSOR_TYPES *)

DescriptionDefaults ==
    [ value_cast                   |-> "None",
      native_unit_of_measurement   |-> "None",
      imperial_unit_of_measurement |-> "None",
      to_native_conversion         |-> NoConversion,
      from_native_conversion       |-> NoConversion ]

Description(key, path, fields) ==
    [f \in {"key", "value_key_path"} \cup DOMAIN DescriptionDefaults |->
        IF f = "key" THEN key
        ELSE IF f = "value_key_path" THEN path
        ELSE IF f \in DOMAIN fields THEN fields[f]
        ELSE DescriptionDefaults[f]]

DistanceDescription(key, path) ==
    Description(key, path,
        [ native_unit_of_measurement   |-> "km",
          imperial_unit_of_measurement |-> "mi",
          to_native_conversion   |-> Conversion("DistanceConverter", "mi", "km"),
          from_native_conversion |-> Conversion("DistanceConverter", "km", "mi") ])

PressureDescription(key, path) ==
    Description(key, path,
        [ native_unit_of_measurement   |-> "kPa",
          imperial_unit_of_measurement |-> "psi",
          to_native_conversion   |-> Conversion("PressureConverter", "psi", "kPa"),
          from_native_conversion |-> Conversion("PressureConverter", "kPa", "psi") ])

FuelDescription ==
    Description("fuel", "fuel.amountRemaining",
        [ native_unit_of_measurement   |-> "L",
          imperial_unit_of_measurement |-> "gal",
          to_native_conversion   |-> Conversion("DistanceConverter", "gal", "L"),
          from_native_conversion |-> Conversion("DistanceConverter", "L", "gal") ])

SENSOR_TYPES ==
    << Description("battery_capacity", "battery_nominal_capacity.capacity.nominal",
           [native_unit_of_measurement |-> "kWh"]),
       Description("battery_level", "battery.percentRemaining",
           [value_cast |-> "percent", native_unit_of_measurement |-> "%"]),
       Description("charging_state", "charge.state", <<>>),
       Description("engine_oil", "engine_oil.lifeRemaining",
           [native_unit_of_measurement |-> "%"]),
       FuelDescription,
       Description("fuel_percent", "fuel.percentRemaining",
           [value_cast |-> "percent", native_unit_of_measurement |-> "%"]),
       DistanceDescription("fuel_range", "fuel.range"),
       DistanceDescription("odometer", "odometer.distance"),
       DistanceDescription("range", "battery.range"),
       PressureDescription("tire_pressure_back_left", "tires_pressure.backLeft"),
       PressureDescription("tire_pressure_back_right", "tires_pressure.backRight"),
       PressureDescription("tire_pressure_front_left", "tires_pressure.frontLeft"),
       PressureDescription("tire_pressure_front_right", "tires_pressure.frontRight") >>

Keys == {SENSOR_TYPES[i].key : i \in DOMAIN SENSOR_TYPES}

Desc(key) == SENSOR_TYPES[CHOOSE i \in DOMAIN SENSOR_TYPES : SENSOR_TYPES[i].key = key]

\* pct and int(pct * 100): the transform rounding down
PercentCast_Floor(pct) ==
    IF Truthy(pct) THEN LET x == Mul(pct, Num(100, 1)) IN Num(x.n \div x.d, 1) ELSE pct

\* value_cast=lambda pct: pct and round(pct * 100)
PercentCast(pct) == IF Truthy(pct) THEN PyRound(Mul(pct, Num(100, 1))) ELSE pct

\* calling description.value_cast
ValueCast(desc, v) == IF desc.value_cast = "percent" THEN PercentCast(v) ELSE v
----------------------------------------------------------------------------
(* SmartcarSensor *)

\* config_entry.data: the CONF_USE_IMPERIAL item, which may be missing
ConfDatas == { [present |-> FALSE, value |-> FALSE],
               [present |-> TRUE,  value |-> FALSE],
               [present |-> TRUE,  value |-> TRUE] }

\* data.get(CONF_USE_IMPERIAL, False)
ConfGet(conf, default) == IF conf.present THEN conf.value ELSE default

\* SmartcarSensor.__init__: the fields of the new entity
SensorInit(desc, conf) ==
    LET flag == ConfGet(conf, FALSE)
    IN  [ key          |-> desc.key,
          use_imperial |-> flag,
          unit         |-> IF flag /\ desc.imperial_unit_of_measurement # "None"
                           THEN desc.imperial_unit_of_measurement
                           ELSE desc.native_unit_of_measurement ]

\* values the vehicle API reports at the descriptor's path
ChargeStates == {"CHARGING", "FULLY_CHARGED", "NOT_CHARGING"}
CachedValues(desc) ==
    IF desc.key = "charging_state" THEN {Str(s) : s \in ChargeStates}
    ELSE IF desc.value_cast = "percent"
         THEN {Num(n, 2 * MaxValue) : n \in 0..(2 * MaxValue)}
    ELSE {Num(n, 1) : n \in 0..MaxValue}

\* the cached status payload, restricted to the descriptor's path: the path
\* is missing, or holds a null, or holds a reported value
NoPayload == [present |-> FALSE, value |-> None]
Payloads(desc) ==
    {NoPayload} \cup {[present |-> TRUE, value |-> v] : v \in CachedValues(desc) \cup {None}}

\* SmartcarEntity._extract_raw_value: look the path up in the cached payload
\* (absent gives None) and apply the descriptor's value transform
_extract_raw_value(desc, payload) ==
    IF ~payload.present THEN None ELSE ValueCast(desc, payload.value)

\* _extract_value without its "value is None" early return
_extract_value_NoNoneCheck(desc, flag, value) ==
    IF flag /\ desc.from_native_conversion # NoConversion
    THEN [value   |-> ApplyConversion(desc.from_native_conversion, value),
          applied |-> <<"from_native_conversion">>]
    ELSE IF ~flag /\ desc.to_native_conversion # NoConversion
    THEN [value   |-> ApplyConversion(desc.to_native_conversion, value),
          applied |-> <<"to_native_conversion">>]
    ELSE [value |-> value, applied |-> <<>>]

\* _extract_value with the two conversion fields exchanged
_extract_value_Swapped(desc, flag, value) ==
    IF value = None
    THEN [value |-> None, applied |-> <<>>]
    ELSE IF flag /\ desc.to_native_conversion # NoConversion
    THEN [value   |-> ApplyConversion(desc.to_native_conversion, value),
          applied |-> <<"to_native_conversion">>]
    ELSE IF ~flag /\ desc.from_native_conversion # NoConversion
    THEN [value   |-> ApplyConversion(desc.from_native_conversion, value),
          applied |-> <<"from_native_conversion">>]
    ELSE [value |-> value, applied |-> <<>>]

\* _extract_value calling the conversion fields without testing them
_extract_value_Unguarded(desc, flag, value) ==
    IF value = None
    THEN [value |-> None, applied |-> <<>>]
    ELSE IF flag
    THEN [value   |-> ApplyConversion(desc.from_native_conversion, value),
          applied |-> <<"from_native_conversion">>]
    ELSE [value   |-> ApplyConversion(desc.to_native_conversion, value),
          applied |-> <<"to_native_conversion">>]

\* SmartcarSensor._extract_value on the raw value: the returned value (or
\* Raised) and the descriptor fields whose conversion was called
_extract_value(desc, flag, value) ==
    IF value = None
    THEN [value |-> None, applied |-> <<>>]
    ELSE IF flag /\ desc.from_native_conversion # NoConversion
    THEN [value   |-> ApplyConversion(desc.from_native_conversion, value),
          applied |-> <<"from_native_conversion">>]
    ELSE IF ~flag /\ desc.to_native_conversion # NoConversion
    THEN [value   |-> ApplyConversion(desc.to_native_conversion, value),
          applied |-> <<"to_native_conversion">>]
    ELSE [value |-> value, applied |-> <<>>]

NoRead == [called |-> FALSE, payload |-> NoPayload, raw |-> None,
           value |-> None, applied |-> <<>>]

InitOther(these) ==
    /\ "sensor" \in these \/
          /\ description = "battery_capacity"
          /\ use_imperial = FALSE
          /\ unit = "None"
          /\ confData = [present |-> FALSE, value |-> FALSE]
          /\ constructedWith = confData
          /\ data = NoPayload
          /\ ret = NoRead
    /\ "setup" \in these \/
          /\ coordinators = <<>>
          /\ scopes = {}
          /\ setupConf = [present |-> FALSE, value |-> FALSE]
          /\ setupCalls = 0
          /\ addCalls = <<>>
    /\ "pure" \in these \/
          /\ fnKey = "battery_capacity"
          /\ orig = None
          /\ cur = None
          /\ hist = <<>>
    /\ "uid" \in these \/
          /\ entry1 = <<>>
          /\ entry2 = <<>>
          /\ uid1 = <<>>
          /\ uid2 = <<>>
          /\ uidDone = FALSE

\* a sensor constructed for any descriptor under any configuration
Init ==
    /\ InitOther({"sensor"})
    /\ confData \in ConfDatas
    /\ constructedWith = confData
    /\ \E i \in DOMAIN SENSOR_TYPES :
          LET e == SensorInit(SENSOR_TYPES[i], confData)
          IN  /\ description = e.key
              /\ use_imperial = e.use_imperial
              /\ unit = e.unit
    /\ data = NoPayload
    /\ ret = NoRead

\* the coordinator refreshes the cached status payload
CoordinatorUpdate ==
    /\ \E p \in Payloads(Desc(description)) : data' = p
    /\ UNCHANGED <<description, use_imperial, unit, confData, constructedWith, ret>>
    /\ UNCHANGED <<setupVars, pureVars, uidVars>>

\* the user changes the unit preference of the config entry
ConfigUpdate ==
    /\ \E c \in ConfDatas : confData' = c
    /\ UNCHANGED <<description, use_imperial, unit, constructedWith, data, ret>>
    /\ UNCHANGED <<setupVars, pureVars, uidVars>>

\* native_value reading the unit preference from the config entry on every
\* read instead of the flag stored by __init__
native_value_LiveFlag ==
    /\ LET raw == _extract_raw_value(Desc(description), data)
           r   == _extract_value(Desc(description), ConfGet(confData, FALSE), raw)
       IN  ret' = [called |-> TRUE, payload |-> data, raw |-> raw,
                   value |-> r.value, applied |-> r.applied]
    /\ UNCHANGED <<description, use_imperial, unit, confData, constructedWith, data>>
    /\ UNCHANGED <<setupVars, pureVars, uidVars>>

\* SmartcarSensor.native_value
native_value ==
    /\ LET raw == _extract_raw_value(Desc(description), data)
           r   == _extract_value(Desc(description), use_imperial, raw)
       IN  ret' = [called |-> TRUE, payload |-> data, raw |-> raw,
                   value |-> r.value, applied |-> r.applied]
    /\ UNCHANGED <<description, use_imperial, unit, confData, constructedWith, data>>
    /\ UNCHANGED <<setupVars, pureVars, uidVars>>

Next == CoordinatorUpdate \/ ConfigUpdate \/ native_value

Spec == Init /\ [][Next]_vars

----------------------------------------------------------------------------
(* Properties of one SmartcarSensor (Spec) *)

HasImperial(desc) == desc.imperial_unit_of_measurement # "None"
NoConversionKeys ==
    {k \in Keys : /\ Desc(k).to_native_conversion = NoConversion
                  /\ Desc(k).from_native_conversion = NoConversion}
BothConversionKeys ==
    {k \in Keys : /\ Desc(k).to_native_conversion # NoConversion
                  /\ Desc(k).from_native_conversion # NoConversion}

\* C1: a read that finds the descriptor's path missing from the cached
\* payload (or finds None as raw value) returns None, raises nothing and
\* calls no conversion, for every descriptor and both values of the flag.
C1_AbsentGivesNone ==
    (ret.called /\ (~ret.payload.present \/ ret.raw = None))
        => /\ ret.value = None
           /\ ret.applied = <<>>

C1_Witness ==
    /\ ret.called
    /\ ~ret.payload.present
    /\ description = "odometer"
    /\ use_imperial
    /\ ret.value = None

\* C2: on a present value a read calls from_native_conversion (native unit
\* to imperial unit) exactly when the flag is set and the descriptor has one,
\* calls to_native_conversion (imperial unit to native unit) exactly when the
\* flag is clear and the descriptor has one, and otherwise returns the value
\* as it is; no read calls more than one conversion.
C2_ConversionChoice ==
    (ret.called /\ ret.raw # None) =>
        LET desc == Desc(description)
            f    == desc.from_native_conversion
            t    == desc.to_native_conversion
        IN  /\ Len(ret.applied) <= 1
            /\ IF use_imperial /\ f # NoConversion
               THEN /\ ret.applied = <<"from_native_conversion">>
                    /\ f.from = desc.native_unit_of_measurement
                    /\ f.to = desc.imperial_unit_of_measurement
                    /\ ret.value = ApplyConversion(f, ret.raw)
               ELSE IF ~use_imperial /\ t # NoConversion
               THEN /\ ret.applied = <<"to_native_conversion">>
                    /\ t.from = desc.imperial_unit_of_measurement
                    /\ t.to = desc.native_unit_of_measurement
                    /\ ret.value = ApplyConversion(t, ret.raw)
               ELSE /\ ret.applied = <<>>
                    /\ ret.value = ret.raw

C2_Witness ==
    /\ ret.called
    /\ description = "tire_pressure_back_left"
    /\ use_imperial
    /\ ret.raw = Num(2, 1)
    /\ ret.applied = <<"from_native_conversion">>
    /\ ret.value = Num(2000000, 6894757)

\* C3: the descriptors with neither conversion are battery capacity, battery
\* level, charging state, engine oil life and fuel percent, and a read of one
\* of them returns the raw value (the cached value after the value
\* transform) whatever the flag is.
C3_NoConversionPassThrough ==
    /\ NoConversionKeys = {"battery_capacity", "battery_level", "charging_state",
                           "engine_oil", "fuel_percent"}
    /\ (ret.called /\ description \in NoConversionKeys)
          => /\ ret.value = ret.raw
             /\ ret.applied = <<>>

C3_Witness ==
    /\ ret.called
    /\ description = "charging_state"
    /\ use_imperial
    /\ ret.raw = Str("CHARGING")
    /\ ret.value = Str("CHARGING")

\* C6 (as claimed): a read of a present numeric value never ends in an
\* error, for every descriptor and both values of the flag.
C6_NoFailureOnPresentValue ==
    (ret.called /\ ret.raw.tag = "num") => ret.value \notin Errors

\* C8: the reported unit is the imperial unit exactly when the stored flag
\* is set and the descriptor has an imperial unit, and the native unit
\* otherwise; the stored flag is the config entry's value at construction
\* (false when the item is missing) whatever the entry holds later; and a
\* read converts towards the imperial unit exactly when the reported unit
\* is the imperial one.
C8_UnitFollowsStoredFlag ==
    LET desc == Desc(description)
    IN  /\ use_imperial = (constructedWith.present /\ constructedWith.value)
        /\ unit = IF use_imperial /\ HasImperial(desc)
                  THEN desc.imperial_unit_of_measurement
                  ELSE desc.native_unit_of_measurement
        /\ (ret.called /\ ret.raw # None /\ description \in BothConversionKeys)
              => /\ (ret.applied = <<"from_native_conversion">>)
                        <=> (unit = desc.imperial_unit_of_measurement)
                 /\ (ret.applied = <<"to_native_conversion">>)
                        <=> (unit = desc.native_unit_of_measurement)

C8_Witness ==
    /\ ret.called
    /\ description = "range"
    /\ use_imperial
    /\ unit = "mi"
    /\ confData = [present |-> TRUE, value |-> FALSE]
    /\ ret.raw = Num(3, 1)
    /\ ret.applied = <<"from_native_conversion">>

\* C10 (as claimed): the cached value being in the native unit, a read of a
\* descriptor with an imperial unit returns the cached value unchanged under
\* the native unit when the flag is clear, and its native-to-imperial
\* conversion under the imperial unit when the flag is set.
C10_ValueInReportedUnit ==
    (ret.called /\ ret.raw # None /\ HasImperial(Desc(description))) =>
        LET desc == Desc(description)
        IN  IF use_imperial
            THEN /\ unit = desc.imperial_unit_of_measurement
                 /\ ret.value = ApplyConversion(desc.from_native_conversion, ret.raw)
            ELSE /\ unit = desc.native_unit_of_measurement
                 /\ ret.value = ret.raw

----------------------------------------------------------------------------
(* async_setup_entry (SpecSetup) *)

\* the vehicles an entry can hold coordinators for
Vins == {"VIN1", "VIN2"}

Range(seq) == {seq[i] : i \in DOMAIN seq}

\* sequences without repetition over a set: the key orders of a dict
RECURSIVE Orders(_)
Orders(S) ==
    IF S = {} THEN {<<>>}
    ELSE UNION {{<<x>> \o o : o \in Orders(S \ {x})} : x \in S}

\* coordinator.is_scope_enabled(description.key)
is_scope_enabled(vin, key) == <<vin, key>> \in scopes

\* the comprehension's inner loop without its scope test
EntitiesFor_Unfiltered(vin) ==
    [i \in DOMAIN SENSOR_TYPES |->
        [vin |-> vin] @@ SensorInit(SENSOR_TYPES[i], setupConf)]

\* SmartcarSensor(coordinator, description) for description in SENSOR_TYPES
\* if coordinator.is_scope_enabled(description.key)
EntitiesFor(vin) ==
    LET enabled == SelectSeq(SENSOR_TYPES, LAMBDA desc : is_scope_enabled(vin, desc.key))
    IN  [i \in DOMAIN enabled |-> [vin |-> vin] @@ SensorInit(enabled[i], setupConf)]

\* ... for coordinator in coordinators.values()
RECURSIVE Entities(_)
Entities(coords) ==
    IF coords = <<>> THEN <<>>
    ELSE EntitiesFor(Head(coords)) \o Entities(Tail(coords))

InitSetup ==
    /\ InitOther({"setup"})
    /\ coordinators \in UNION {Orders(S) : S \in SUBSET Vins}
    /\ scopes = {}
    /\ setupConf \in ConfDatas
    /\ setupCalls = 0
    /\ addCalls = <<>>

\* the user grants the permission behind one sensor of one vehicle
GrantScope ==
    /\ Cardinality(scopes) < MaxScopes
    /\ \E vin \in Range(coordinators), key \in Keys :
          /\ <<vin, key>> \notin scopes
          /\ scopes' = scopes \cup {<<vin, key>>}
    /\ UNCHANGED <<coordinators, setupConf, setupCalls, addCalls>>
    /\ UNCHANGED <<sensorVars, pureVars, uidVars>>

\* the user changes the unit preference of the config entry
SetupConfigUpdate ==
    /\ \E c \in ConfDatas : setupConf' = c
    /\ UNCHANGED <<coordinators, scopes, setupCalls, addCalls>>
    /\ UNCHANGED <<sensorVars, pureVars, uidVars>>

\* async_setup_entry(hass, entry, async_add_entities)
async_setup_entry ==
    /\ setupCalls < MaxSetups
    /\ setupCalls' = setupCalls + 1
    /\ addCalls' = Append(addCalls, Entities(coordinators))
    /\ UNCHANGED <<coordinators, scopes, setupConf>>
    /\ UNCHANGED <<sensorVars, pureVars, uidVars>>

NextSetup == GrantScope \/ SetupConfigUpdate \/ async_setup_entry

SpecSetup == InitSetup /\ [][NextSetup]_vars

\* number of entities of a list that are for the pair (vin, key)
CountFor(list, vin, key) ==
    Cardinality({i \in DOMAIN list : list[i].vin = vin /\ list[i].key = key})

\* C9: every run of async_setup_entry makes exactly one async_add_entities
\* call, and the list it passes holds exactly one entity for each (vehicle
\* coordinator, descriptor) pair whose scope is enabled at that moment and
\* none for any other pair.
C9_EntitiesMatchScopes ==
    /\ [](Len(addCalls) = setupCalls)
    /\ [][setupCalls' # setupCalls =>
            /\ Len(addCalls') = Len(addCalls) + 1
            /\ LET list == addCalls'[Len(addCalls')]
               IN  \A vin \in Vins, key \in Keys :
                      CountFor(list, vin, key) =
                         IF vin \in Range(coordinators) /\ <<vin, key>> \in scopes
                         THEN 1 ELSE 0]_vars

C9_Witness ==
    /\ setupCalls = 1
    /\ Len(coordinators) = 2
    /\ Cardinality(scopes) = 2
    /\ Len(addCalls) = 1
    /\ Len(addCalls[1]) = 2
    /\ addCalls[1][1].vin # addCalls[1][2].vin

----------------------------------------------------------------------------
(* The function fields of the descriptors (SpecPure) *)

PureInputs(desc) ==
    IF desc.value_cast = "percent"
    THEN {None} \cup {Num(n, FracDen) : n \in 0..FracDen}
                \cup {Num(n, 100) : n \in 0..100}
    ELSE CachedValues(desc)

InitPure ==
    /\ InitOther({"pure"})
    /\ fnKey \in Keys
    /\ orig \in PureInputs(Desc(fnKey))
    /\ cur = orig
    /\ hist = <<>>

\* description.value_cast(input)
CallValueCast ==
    /\ hist = <<>>
    /\ Desc(fnKey).value_cast # "None"
    /\ cur' = ValueCast(Desc(fnKey), cur)
    /\ hist' = <<"value_cast">>
    /\ UNCHANGED <<fnKey, orig>>
    /\ UNCHANGED <<sensorVars, setupVars, uidVars>>

\* description.from_native_conversion(value), on the input or on the result
\* of the opposite conversion
CallFromNative ==
    /\ hist \in {<<>>, <<"to_native_conversion">>}
    /\ Desc(fnKey).from_native_conversion # NoConversion
    /\ cur \notin Errors
    /\ cur' = ApplyConversion(Desc(fnKey).from_native_conversion, cur)
    /\ hist' = Append(hist, "from_native_conversion")
    /\ UNCHANGED <<fnKey, orig>>
    /\ UNCHANGED <<sensorVars, setupVars, uidVars>>

\* description.to_native_conversion(value), on the input or on the result of
\* the opposite conversion
CallToNative ==
    /\ hist \in {<<>>, <<"from_native_conversion">>}
    /\ Desc(fnKey).to_native_conversion # NoConversion
    /\ cur \notin Errors
    /\ cur' = ApplyConversion(Desc(fnKey).to_native_conversion, cur)
    /\ hist' = Append(hist, "to_native_conversion")
    /\ UNCHANGED <<fnKey, orig>>
    /\ UNCHANGED <<sensorVars, setupVars, uidVars>>

NextPure == CallValueCast \/ CallFromNative \/ CallToNative

SpecPure == InitPure /\ [][NextPure]_vars

\* C5 (as claimed): the descriptors with both conversions are fuel, fuel
\* range, odometer, range and the four tire pressures; neither conversion
\* of such a descriptor fails, and applying one and then the other gives
\* the original value back.
C5_RoundTrip ==
    /\ BothConversionKeys = {"fuel", "fuel_range", "odometer", "range",
                             "tire_pressure_back_left", "tire_pressure_back_right",
                             "tire_pressure_front_left", "tire_pressure_front_right"}
    /\ (fnKey \in BothConversionKeys /\ hist # <<>>)
          => /\ cur \notin Errors
             /\ Len(hist) = 2 => cur = orig

\* C7: the value transform belongs to battery level and fuel percent only;
\* it maps None to None and 0 to 0, and a fraction p in 0..1 to the integer
\* nearest to 100 * p (the even one of two equally near), which lies in
\* 0..100.
C7_PercentTransform ==
    /\ {k \in Keys : Desc(k).value_cast # "None"} = {"battery_level", "fuel_percent"}
    /\ hist = <<"value_cast">> =>
          /\ orig = None => cur = None
          /\ orig = Num(0, 1) => cur = Num(0, 1)
          /\ orig.tag = "num" =>
                /\ cur.tag = "num"
                /\ cur.d = 1
                /\ cur.n \in 0..100
                /\ 2 * Abs(100 * orig.n - cur.n * orig.d) <= orig.d
                /\ 2 * Abs(100 * orig.n - cur.n * orig.d) = orig.d => cur.n % 2 = 0

C7_Witness ==
    /\ fnKey = "battery_level"
    /\ hist = <<"value_cast">>
    /\ orig = Num(42, 100)
    /\ cur = Num(42, 1)

----------------------------------------------------------------------------
(* unique_id_from_entry_data (SpecUid) *)

\* characters of the vehicle keys, as code points: "1", "A", "B", "a", "b"
Chars == {49, 65, 66, 97, 98}

\* strings are sequences of code points
RECURSIVE Strings(_)
Strings(len) ==
    IF len = 0 THEN {<<>>}
    ELSE {<<>>} \cup {<<c>> \o s : c \in Chars, s \in Strings(len - 1)}

VehicleKeys == Strings(MaxKeyLen) \ {<<>>}

\* str.lower() on one character and on a string
LowerChar(c) == IF c \in 65..90 THEN c + 32 ELSE c
lower(s) == [i \in DOMAIN s |-> LowerChar(s[i])]

\* a < b on Python strings: by code point, a proper prefix first
RECURSIVE StrLess(_, _)
StrLess(a, b) ==
    IF b = <<>> THEN FALSE
    ELSE IF a = <<>> THEN TRUE
    ELSE IF Head(a) # Head(b) THEN Head(a) < Head(b)
    ELSE StrLess(Tail(a), Tail(b))

\* sorted(keys)
RECURSIVE InsertSorted(_, _)
InsertSorted(x, list) ==
    IF list = <<>> THEN <<x>>
    ELSE IF StrLess(x, Head(list)) THEN <<x>> \o list
    ELSE <<Head(list)>> \o InsertSorted(x, Tail(list))

RECURSIVE sorted(_)
sorted(list) ==
    IF list = <<>> THEN <<>> ELSE InsertSorted(Head(list), sorted(Tail(list)))

\* " ".join(list)
RECURSIVE join(_)
join(list) ==
    IF list = <<>> THEN <<>>
    ELSE IF Len(list) = 1 THEN Head(list)
    ELSE Head(list) \o <<32>> \o join(Tail(list))

\* unique_id_from_entry_data(data), keys being data["vehicles"].keys()
unique_id_from_entry_data(keys) == lower(join(sorted(keys)))

LoweredKeys(keys) == {lower(keys[i]) : i \in DOMAIN keys}

InitUid ==
    /\ InitOther({"uid"})
    /\ entry1 = <<>>
    /\ entry2 = <<>>
    /\ uid1 = <<>>
    /\ uid2 = <<>>
    /\ uidDone = FALSE

\* a vehicle is added to the first record under a key that no vehicle of the
\* record has, in any letter case
AddVehicle1 ==
    /\ ~uidDone
    /\ Len(entry1) < MaxKeys
    /\ \E k \in VehicleKeys :
          /\ lower(k) \notin LoweredKeys(entry1)
          /\ entry1' = Append(entry1, k)
    /\ UNCHANGED <<entry2, uid1, uid2, uidDone>>
    /\ UNCHANGED <<sensorVars, setupVars, pureVars>>

\* the same for the second record
AddVehicle2 ==
    /\ ~uidDone
    /\ Len(entry2) < MaxKeys
    /\ \E k \in VehicleKeys :
          /\ lower(k) \notin LoweredKeys(entry2)
          /\ entry2' = Append(entry2, k)
    /\ UNCHANGED <<entry1, uid1, uid2, uidDone>>
    /\ UNCHANGED <<sensorVars, setupVars, pureVars>>

\* unique_id_from_entry_data is called on both records
ComputeIds ==
    /\ ~uidDone
    /\ uid1' = unique_id_from_entry_data(entry1)
    /\ uid2' = unique_id_from_entry_data(entry2)
    /\ uidDone' = TRUE
    /\ UNCHANGED <<entry1, entry2>>
    /\ UNCHANGED <<sensorVars, setupVars, pureVars>>

NextUid == AddVehicle1 \/ AddVehicle2 \/ ComputeIds

SpecUid == InitUid /\ [][NextUid]_vars

\* C4 (as claimed): two records whose vehicle keys are the same set once
\* every key is lower-cased get the same identifier, whatever the order and
\* the letter case of the keys in each record.
C4_StableCaseInsensitiveId ==
    (uidDone /\ LoweredKeys(entry1) = LoweredKeys(entry2)) => uid1 = uid2

====
